---- MODULE Spec2Model ----
(***************************************************************************)
(* Model of server.py: a socketserver.TCPServer on port 8000 whose handler *)
(* CORSRequestHandler extends http.server.SimpleHTTPRequestHandler with an *)
(* end_headers override (three CORS / cache headers) and a do_OPTIONS.     *)
(*                                                                         *)
(* The inherited behaviour (request-line parsing, header buffering, path   *)
(* translation, file / directory serving, the accept loop) is translated   *)
(* from the CPython 3.11 library code that server.py inherits and calls.   *)
(*                                                                         *)
(* Representation.                                                         *)
(*  - A URL path is the sequence of its segments after the leading "/":    *)
(*    "/" is <<"">>, "/a" is <<"a">>, "/d/" is <<"d","">>, "//a" is        *)
(*    <<"","a">>, "/../a" is <<"..","a">>.  Query strings, fragments and   *)
(*    percent-escapes are not modelled.                                    *)
(*  - A protocol version word is [proto, nums]: "HTTP/1.1" is              *)
(*    [proto |-> "HTTP", nums |-> <<1,1>>], "HTTP/5" has nums <<5>>.       *)
(*  - A line of the response head is [k, v, n, p]: header name, string     *)
(*    value, numeric value, path value.  The status line has k = "STATUS"  *)
(*    and n = the code; the blank line ending the head has k = "CRLF".     *)
(*  - Bodies are sequences of numbers.  A file's body is its bytes; the    *)
(*    generated error page and directory listing are single markers.       *)
(*  - The filesystem maps absolute paths (sequences of names) to nodes;    *)
(*    symbolic links are not modelled.                                     *)
(***************************************************************************)
EXTENDS Integers, Sequences, FiniteSets, TLC

\* ------------------------------------------------------------------ bounds
MaxSegs == 2      \* longest URL path, in segments
MaxConns == 2     \* client connections made during a run

\* --------------------------------------------------------------- constants
PORT == 8000

OK == 200
MOVED_PERMANENTLY == 301
NOT_MODIFIED == 304
BAD_REQUEST == 400
NOT_FOUND == 404
REQUEST_URI_TOO_LONG == 414
REQUEST_HEADER_FIELDS_TOO_LARGE == 431
NOT_IMPLEMENTED == 501
HTTP_VERSION_NOT_SUPPORTED == 505


Last(s) == s[Len(s)]
Front(s) == SubSeq(s, 1, Len(s) - 1)

\* ---------------------------------------------------------------- versions
Version(proto, nums) == [proto |-> proto, nums |-> nums]
V09 == Version("HTTP", <<0, 9>>)
V10 == Version("HTTP", <<1, 0>>)
V11 == Version("HTTP", <<1, 1>>)
V20 == Version("HTTP", <<2, 0>>)
VBad == Version("HTTP", <<5>>)
VFtp == Version("FTP", <<1, 0>>)
VEmpty == Version("", <<>>)

default_request_version == V09
protocol_version == V10

\* Python's tuple / string order on two-part version numbers.
VersionGE(a, b) == a[1] > b[1] \/ (a[1] = b[1] /\ a[2] >= b[2])

\* -------------------------------------------------------------- filesystem
Absent == [kind |-> "none", readable |-> FALSE, content |-> <<>>, mtime |-> 0]
File(r, c, t) == [kind |-> "file", readable |-> r, content |-> c, mtime |-> t]
Dir(r) == [kind |-> "dir", readable |-> r, content |-> <<>>, mtime |-> 0]

\* The directory holding server.py, the working directory after os.chdir.
directory == <<"srv">>

FsPaths ==
  { <<>>, <<"a">>, <<"srv">>, <<"srv", "a">>, <<"srv", "d">>, <<"srv", "d", "a">>,
    <<"srv", "d", "index.html">>, <<"srv", "d", "index.htm">> }

OutsideBytes == <<7>>

\* Timestamps: file modification times and If-Modified-Since values.
Times == {0, 1}

\* The states of /srv/a, /srv/d, /srv/d/index.html and /srv/d/index.htm.
FileStates == { Absent, File(TRUE, <<1, 2>>, 1), File(FALSE, <<1, 2>>, 1) }
DirStates == { Absent, Dir(TRUE), Dir(FALSE) }
IndexStates == { Absent, File(TRUE, <<3>>, 0), File(FALSE, <<3>>, 0), Dir(TRUE) }
IndexHtmStates == { Absent, File(TRUE, <<4>>, 0) }

MkFS(a, d, ih, im) ==
  [p \in FsPaths |->
     CASE p = <<>> -> Dir(TRUE)
       [] p = <<"a">> -> File(TRUE, OutsideBytes, 0)
       [] p = <<"srv">> -> Dir(TRUE)
       [] p = <<"srv", "a">> -> a
       [] p = <<"srv", "d">> -> d
       [] p = <<"srv", "d", "a">> -> IF d.kind = "dir" THEN File(TRUE, <<5>>, 0) ELSE Absent
       [] p = <<"srv", "d", "index.html">> -> IF d.kind = "dir" THEN ih ELSE Absent
       [] p = <<"srv", "d", "index.htm">> -> IF d.kind = "dir" THEN im ELSE Absent]

FileSystems ==
  { MkFS(a, d, ih, im) : a \in FileStates, d \in DirStates,
                         ih \in IndexStates, im \in IndexHtmStates }

\* The operating system's resolution of a path: ".." steps to the parent.
RECURSIVE Canon(_, _)
Canon(comps, acc) ==
  IF comps = <<>> THEN acc
  ELSE IF Head(comps) = ".."
       THEN Canon(Tail(comps), IF acc = <<>> THEN acc ELSE Front(acc))
       ELSE Canon(Tail(comps), Append(acc, Head(comps)))

Lookup(f, comps) ==
  LET c == Canon(comps, <<>>) IN IF c \in DOMAIN f THEN f[c] ELSE Absent

IsPrefix(s, t) == Len(s) <= Len(t) /\ SubSeq(t, 1, Len(s)) = s

\* ------------------------------------------------------------------- paths
RECURSIVE lstrip(_)
lstrip(segs) ==
  IF segs # <<>> /\ Head(segs) = "" THEN lstrip(Tail(segs)) ELSE segs

\* parse_request: a path starting with "//" is reduced to a single "/".
CollapseLeadingSlashes(segs) ==
  IF Len(segs) >= 2 /\ segs[1] = ""
  THEN (IF lstrip(segs) = <<>> THEN <<"">> ELSE lstrip(segs))
  ELSE segs

\* posixpath.normpath on an absolute path.
RECURSIVE normpath(_, _)
normpath(segs, acc) ==
  IF segs = <<>> THEN acc
  ELSE LET c == Head(segs) IN
       IF c = "" \/ c = "." THEN normpath(Tail(segs), acc)
       ELSE IF c # ".." THEN normpath(Tail(segs), Append(acc, c))
       ELSE IF acc # <<>> THEN normpath(Tail(segs), Front(acc))
       ELSE normpath(Tail(segs), acc)

\* A faulty translate_path: the segments are joined to the root as they
\* are, ".." included.
translate_path_unnormalised(segs) ==
  [comps |-> directory \o SelectSeq(segs, LAMBDA w : w \notin {"", "."}),
   slash |-> Last(segs) = ""]

translate_path(segs) ==
  LET trailing_slash == Last(segs) = ""
      words == SelectSeq(normpath(segs, <<>>), LAMBDA w : w \notin {"", ".", ".."})
  IN [comps |-> directory \o words, slash |-> trailing_slash]

guess_type(comps) ==
  IF Last(comps) \in {"index.html", "index.htm"}
  THEN "text/html" ELSE "application/octet-stream"

\* ---------------------------------------------------------------- requests
Methods == {"GET", "HEAD", "OPTIONS", "POST"}
Segs == {"", "..", "a", "d"}
Paths == UNION { [1..n -> Segs] : n \in 1..MaxSegs }
NoIMS == 0 - 1

\* raw: "line" (a request line was read), "toolong" (more than 65536 bytes),
\* "eof" (the client sent nothing).  nwords, command, path, version: the words
\* of the request line.  hdr: how reading the header lines ends.  ims, inm:
\* the If-Modified-Since time (NoIMS when absent or ill-formed) and whether
\* If-None-Match is present.
Request(raw, nwords, command, path, version, hdr, ims, inm) ==
  [raw |-> raw, nwords |-> nwords, command |-> command, path |-> path,
   version |-> version, hdr |-> hdr, ims |-> ims, inm |-> inm]

FullRequests ==
  { Request("line", 3, c, p, V11, "ok", t, m) :
      c \in {"GET", "HEAD"}, p \in Paths, t \in Times, m \in BOOLEAN }
  \cup { Request("line", 3, c, p, V11, "ok", NoIMS, FALSE) : c \in Methods, p \in Paths }

SimpleRequests ==
  { Request("line", 2, c, p, VEmpty, "ok", NoIMS, FALSE) :
      c \in {"GET", "OPTIONS"}, p \in Paths }

OddRequests ==
  { Request("line", 3, c, <<"a">>, v, h, NoIMS, FALSE) :
      c \in {"GET", "OPTIONS"}, v \in {V09, V10, V11, V20, VBad, VFtp},
      h \in {"ok", "toolong", "toomany"} }
  \cup { Request("line", n, "GET", <<"a">>, V11, "ok", NoIMS, FALSE) : n \in {0, 1, 4} }
  \cup { Request("toolong", 0, "", <<>>, VEmpty, "ok", NoIMS, FALSE),
         Request("eof", 0, "", <<>>, VEmpty, "ok", NoIMS, FALSE) }

Requests == FullRequests \cup SimpleRequests \cup OddRequests

\* ----------------------------------------------------------- handler state
Line(k, v, n, p) == [k |-> k, v |-> v, n |-> n, p |-> p]
StatusLine(code) == Line("STATUS", "", code, <<>>)
CRLF == Line("CRLF", "", 0, <<>>)

ErrorBody(code) == <<code>>
ListingBody == <<1000>>

\* request_version, command, path, close_connection, _headers_buffer: the
\* handler's attributes.  wfile: the response head as written to the socket.
\* body: the bytes written after it.  code: the status given to
\* send_response (0: none).  ok: parse_request's result.  opened: the
\* filesystem path whose bytes were copied to the socket (<<>>: none).
NewHandler ==
  [request_version |-> VEmpty, command |-> "", path |-> <<>>,
   close_connection |-> TRUE, headers_buffer |-> <<>>, wfile |-> <<>>,
   body |-> <<>>, code |-> 0, ok |-> TRUE, opened |-> <<>>]

send_response_only(h, code) ==
  IF h.request_version # V09
  THEN [h EXCEPT !.headers_buffer = Append(@, StatusLine(code))]
  ELSE h

send_header(h, keyword, v, n, p) ==
  LET h1 == IF h.request_version # V09
            THEN [h EXCEPT !.headers_buffer = Append(@, Line(keyword, v, n, p))]
            ELSE h
  IN IF keyword = "Connection"
     THEN (IF v = "close" THEN [h1 EXCEPT !.close_connection = TRUE]
           ELSE IF v = "keep-alive" THEN [h1 EXCEPT !.close_connection = FALSE]
           ELSE h1)
     ELSE h1

send_response(h, code) ==
  LET h1 == send_response_only([h EXCEPT !.code = code], code)
      h2 == send_header(h1, "Server", "SimpleHTTP", 0, <<>>)
  IN send_header(h2, "Date", "now", 0, <<>>)

flush_headers(h) ==
  [h EXCEPT !.wfile = @ \o h.headers_buffer, !.headers_buffer = <<>>]

\* BaseHTTPRequestHandler.end_headers
base_end_headers(h) ==
  IF h.request_version # V09
  THEN flush_headers([h EXCEPT !.headers_buffer = Append(@, CRLF)])
  ELSE h

AllowOrigin == Line("Access-Control-Allow-Origin", "*", 0, <<>>)
AllowMethods == Line("Access-Control-Allow-Methods", "GET, OPTIONS", 0, <<>>)
CacheControl == Line("Cache-Control", "no-store, no-cache, must-revalidate", 0, <<>>)

\* Faulty variants of end_headers: one header forgotten; the headers added
\* after the head was ended and written out; the headers added twice.
end_headers_without_cache_control(h) ==
  LET h1 == send_header(h, AllowOrigin.k, AllowOrigin.v, 0, <<>>)
      h2 == send_header(h1, AllowMethods.k, AllowMethods.v, 0, <<>>)
  IN base_end_headers(h2)

end_headers_after_flush(h) ==
  LET h0 == base_end_headers(h)
      h1 == send_header(h0, AllowOrigin.k, AllowOrigin.v, 0, <<>>)
      h2 == send_header(h1, AllowMethods.k, AllowMethods.v, 0, <<>>)
  IN send_header(h2, CacheControl.k, CacheControl.v, 0, <<>>)

end_headers_twice(h) ==
  LET h1 == send_header(h, AllowOrigin.k, AllowOrigin.v, 0, <<>>)
      h2 == send_header(h1, AllowMethods.k, AllowMethods.v, 0, <<>>)
      h3 == send_header(h2, CacheControl.k, CacheControl.v, 0, <<>>)
      h4 == send_header(h3, AllowOrigin.k, AllowOrigin.v, 0, <<>>)
      h5 == send_header(h4, AllowMethods.k, AllowMethods.v, 0, <<>>)
      h6 == send_header(h5, CacheControl.k, CacheControl.v, 0, <<>>)
  IN base_end_headers(h6)

\* CORSRequestHandler.end_headers
end_headers(h) ==
  LET h1 == send_header(h, AllowOrigin.k, AllowOrigin.v, 0, <<>>)
      h2 == send_header(h1, AllowMethods.k, AllowMethods.v, 0, <<>>)
      h3 == send_header(h2, CacheControl.k, CacheControl.v, 0, <<>>)
  IN base_end_headers(h3)

send_error(h, code) ==
  LET h1 == send_response(h, code)
      h2 == send_header(h1, "Connection", "close", 0, <<>>)
      hasBody == code >= 200 /\ code \notin {204, 205, 304}
      body == ErrorBody(code)
      h3 == IF hasBody
            THEN send_header(send_header(h2, "Content-Type", "text/html;charset=utf-8", 0, <<>>),
                             "Content-Length", "", Len(body), <<>>)
            ELSE h2
      h4 == end_headers(h3)
  IN IF h.command # "HEAD" /\ hasBody /\ body # <<>>
     THEN [h4 EXCEPT !.body = @ \o body]
     ELSE h4

\* ------------------------------------------------------- request parsing
\* The Connection header is not modelled: with protocol_version HTTP/1.0 it
\* can only set close_connection to True, which it already is.  For the same
\* reason "Expect: 100-continue" never reaches handle_expect_100.
parse_request(h0, req) ==
  LET h1 == [h0 EXCEPT !.command = "", !.request_version = default_request_version,
                       !.close_connection = TRUE]
      version == req.version
      badVersion == version.proto # "HTTP" \/ Len(version.nums) # 2
      h2 == IF req.nwords >= 3
            THEN [h1 EXCEPT !.close_connection =
                               ~(VersionGE(version.nums, <<1, 1>>)
                                 /\ VersionGE(protocol_version.nums, <<1, 1>>)),
                            !.request_version = version]
            ELSE h1
      h3 == [h2 EXCEPT !.command = req.command,
                       !.path = CollapseLeadingSlashes(req.path),
                       !.close_connection = IF req.nwords = 2 THEN TRUE ELSE @]
      fail(h) == [h EXCEPT !.ok = FALSE]
  IN IF req.nwords = 0 THEN fail(h1)
     ELSE IF req.nwords >= 3 /\ badVersion THEN fail(send_error(h1, BAD_REQUEST))
     ELSE IF req.nwords >= 3 /\ VersionGE(version.nums, <<2, 0>>)
          THEN fail(send_error(h1, HTTP_VERSION_NOT_SUPPORTED))
     ELSE IF ~(2 <= req.nwords /\ req.nwords <= 3) THEN fail(send_error(h2, BAD_REQUEST))
     ELSE IF req.nwords = 2 /\ req.command # "GET"
          THEN fail(send_error([h2 EXCEPT !.close_connection = TRUE], BAD_REQUEST))
     ELSE IF req.hdr # "ok" THEN fail(send_error(h3, REQUEST_HEADER_FIELDS_TOO_LARGE))
     ELSE h3

\* ---------------------------------------------------------- file serving
NoFile == [open |-> FALSE, data |-> <<>>]
OpenFile(data) == [open |-> TRUE, data |-> data]
Result(h, file) == [h |-> h, f |-> file]

isdir(f, comps) == Lookup(f, comps).kind = "dir"
isfile(f, comps) == Lookup(f, comps).kind = "file"

list_directory(h, f, comps) ==
  IF ~Lookup(f, comps).readable
  THEN Result(send_error(h, NOT_FOUND), NoFile)
  ELSE LET h1 == send_response(h, OK)
           h2 == send_header(h1, "Content-type", "text/html; charset=utf-8", 0, <<>>)
           h3 == send_header(h2, "Content-Length", "", Len(ListingBody), <<>>)
       IN Result(end_headers(h3), OpenFile(ListingBody))

\* send_head's "except OSError" around open(path, 'rb'): every failure to
\* open, a missing file and a permission error alike, is answered 404.
\* A variant of OpenErrorStatus that tells a permission error apart.
OpenErrorStatus_forbidden(node) == IF node.kind = "file" THEN 403 ELSE NOT_FOUND

OpenErrorStatus(node) == NOT_FOUND

\* The part of send_head after the directory branch: path is a file name.
send_file(h, f, req, comps, slash) ==
  LET node == Lookup(f, comps)
      ctype == guess_type(comps)
  IN IF slash THEN Result(send_error(h, NOT_FOUND), NoFile)
     ELSE IF ~(node.kind = "file" /\ node.readable)
          THEN Result(send_error(h, OpenErrorStatus(node)), NoFile)
     ELSE LET ho == [h EXCEPT !.opened = Canon(comps, <<>>)] IN
          IF req.ims # NoIMS /\ ~req.inm /\ node.mtime <= req.ims
          THEN Result(end_headers(send_response(ho, NOT_MODIFIED)), NoFile)
          ELSE LET h1 == send_response(ho, OK)
                   h2 == send_header(h1, "Content-type", ctype, 0, <<>>)
                   h3 == send_header(h2, "Content-Length", "", Len(node.content), <<>>)
                   h4 == send_header(h3, "Last-Modified", "", node.mtime, <<>>)
               IN Result(end_headers(h4), OpenFile(node.content))

\* send_head's loop: for index in "index.html", "index.htm".
\* A faulty IndexNames: no index file is looked for.
IndexNames_none == <<>>

IndexNames == <<"index.html", "index.htm">>

send_head(h, f, req) ==
  LET tp == translate_path(h.path)
      found == SelectSeq(IndexNames, LAMBDA index : isfile(f, Append(tp.comps, index)))
  IN IF isdir(f, tp.comps)
     THEN IF Last(h.path) # ""
          THEN LET h1 == send_response(h, MOVED_PERMANENTLY)
                   h2 == send_header(h1, "Location", "", 0, Append(h.path, ""))
                   h3 == send_header(h2, "Content-Length", "", 0, <<>>)
               IN Result(end_headers(h3), NoFile)
          ELSE IF found # <<>>
               THEN send_file(h, f, req, Append(tp.comps, Head(found)), FALSE)
               ELSE list_directory(h, f, tp.comps)
     ELSE send_file(h, f, req, tp.comps, tp.slash)

\* A faulty copyfile: the last byte is not copied.
copyfile_short(h, file) ==
  [h EXCEPT !.body = @ \o (IF file.data = <<>> THEN <<>> ELSE Front(file.data))]

copyfile(h, file) == [h EXCEPT !.body = @ \o file.data]

do_GET(h, f, req) ==
  LET r == send_head(h, f, req) IN IF r.f.open THEN copyfile(r.h, r.f) ELSE r.h

do_HEAD(h, f, req) == send_head(h, f, req).h

\* A faulty do_OPTIONS: the preflight is answered from the filesystem, as a
\* HEAD request is.
do_OPTIONS_from_filesystem(h, f, req) == do_HEAD(h, f, req)

\* CORSRequestHandler.do_OPTIONS
do_OPTIONS(h, f, req) == end_headers(send_response(h, OK))

\* hasattr(self, 'do_' + command) and the call of that method.
HasMethod(command) == command \in {"GET", "HEAD", "OPTIONS"}

Dispatch(h, f, req) ==
  CASE h.command = "GET" -> do_GET(h, f, req)
    [] h.command = "HEAD" -> do_HEAD(h, f, req)
    [] h.command = "OPTIONS" -> do_OPTIONS(h, f, req)

handle_one_request(f, req) ==
  IF req.raw = "toolong"
  THEN send_error([NewHandler EXCEPT !.ok = FALSE], REQUEST_URI_TOO_LONG)
  ELSE IF req.raw = "eof" THEN [NewHandler EXCEPT !.ok = FALSE]
  ELSE LET h == parse_request(NewHandler, req) IN
       IF ~h.ok THEN h
       ELSE IF ~HasMethod(h.command) THEN send_error(h, NOT_IMPLEMENTED)
       ELSE Dispatch(h, f, req)

\* ------------------------------------------------------------ the process
VARIABLES
  pc,          \* where main is: "serving", "KeyboardInterrupt", "with_exit", "return", "exited"
  caught,      \* whether the KeyboardInterrupt was caught by main's except clause
  sockOpen,    \* the listening socket is open
  stdout,      \* the lines printed so far
  exitStatus,  \* the process's exit status (-1 while it runs)
  nextConn,    \* the number of client connections made so far
  backlog,     \* connections waiting in the listen queue, oldest first
  handler,     \* the request handlers in progress, by connection
  acceptOrder, \* the connections in the order get_request returned them
  closeOrder   \* the connections in the order shutdown_request closed them

vars == <<pc, caught, sockOpen, stdout, exitStatus, nextConn, backlog, handler,
          acceptOrder, closeOrder>>

Reading == [stage |-> "reading"]
Responded(req, f, h) == [stage |-> "responded", req |-> req, fs |-> f, h |-> h]

Without(fn, c) == [x \in DOMAIN fn \ {c} |-> fn[x]]
With(fn, c, v) == [x \in DOMAIN fn \cup {c} |-> IF x = c THEN v ELSE fn[x]]

RECURSIVE Ascending(_)
Ascending(S) ==
  IF S = {} THEN <<>>
  ELSE LET m == CHOOSE x \in S : \A y \in S : x <= y
       IN <<m>> \o Ascending(S \ {m})

\* main, up to the call of serve_forever.
Init ==
  /\ pc = "serving"
  /\ caught = FALSE
  /\ sockOpen = TRUE
  /\ stdout = <<"Starting HTTP server", "Serving files from", "Open your browser",
                "log-viewer.html", "Press Ctrl+C to stop the server">>
  /\ exitStatus = -1
  /\ nextConn = 0
  /\ backlog = <<>>
  /\ handler = <<>>
  /\ acceptOrder = <<>>
  /\ closeOrder = <<>>

\* A client connects: the kernel queues the connection on the listening socket.
Connect ==
  /\ sockOpen
  /\ nextConn < MaxConns
  /\ nextConn' = nextConn + 1
  /\ backlog' = Append(backlog, nextConn + 1)
  /\ UNCHANGED <<pc, caught, sockOpen, stdout, exitStatus, handler, acceptOrder, closeOrder>>

\* socketserver.TCPServer.process_request runs the handler to its end before
\* it returns to the serve_forever loop.
\* CanAccept under a ThreadingMixIn: process_request hands the handler to a
\* thread and returns.
CanAccept_threaded == TRUE

CanAccept == DOMAIN handler = {}

\* serve_forever: select, then _handle_request_noblock's get_request.
Accept ==
  /\ pc = "serving"
  /\ backlog # <<>>
  /\ CanAccept
  /\ handler' = With(handler, Head(backlog), Reading)
  /\ acceptOrder' = Append(acceptOrder, Head(backlog))
  /\ backlog' = Tail(backlog)
  /\ UNCHANGED <<pc, caught, sockOpen, stdout, exitStatus, nextConn, closeOrder>>

\* finish_request: the handler reads one request and answers it.
Handle(c) ==
  /\ pc = "serving"
  /\ c \in DOMAIN handler
  /\ handler[c].stage = "reading"
  /\ \E req \in Requests, f \in FileSystems :
       handler' = [handler EXCEPT ![c] = Responded(req, f, handle_one_request(f, req))]
  /\ UNCHANGED <<pc, caught, sockOpen, stdout, exitStatus, nextConn, backlog,
                 acceptOrder, closeOrder>>

\* The handler raises an Exception (the client reset the connection):
\* handle_error prints it, shutdown_request closes, the loop goes on.
HandlerError(c) ==
  /\ pc = "serving"
  /\ c \in DOMAIN handler
  /\ handler[c].stage = "reading"
  /\ handler' = Without(handler, c)
  /\ closeOrder' = Append(closeOrder, c)
  /\ UNCHANGED <<pc, caught, sockOpen, stdout, exitStatus, nextConn, backlog, acceptOrder>>

\* process_request's shutdown_request after the handler returned.
ShutdownRequest(c) ==
  /\ pc = "serving"
  /\ c \in DOMAIN handler
  /\ handler[c].stage = "responded"
  /\ handler' = Without(handler, c)
  /\ closeOrder' = Append(closeOrder, c)
  /\ UNCHANGED <<pc, caught, sockOpen, stdout, exitStatus, nextConn, backlog, acceptOrder>>

\* Ctrl+C while serve_forever runs: KeyboardInterrupt leaves the loop, closing
\* the connection in progress on its way (_handle_request_noblock's except).
Interrupt ==
  /\ pc = "serving"
  /\ pc' = "KeyboardInterrupt"
  /\ handler' = <<>>
  /\ closeOrder' = closeOrder \o Ascending(DOMAIN handler)
  /\ UNCHANGED <<caught, sockOpen, stdout, exitStatus, nextConn, backlog, acceptOrder>>

\* main's try ... except KeyboardInterrupt.
\* main without its except clause.
CatchesKeyboardInterrupt_not == FALSE

CatchesKeyboardInterrupt == TRUE

ExceptClause ==
  /\ pc = "KeyboardInterrupt"
  /\ pc' = "with_exit"
  /\ caught' = CatchesKeyboardInterrupt
  /\ stdout' = IF CatchesKeyboardInterrupt THEN Append(stdout, "Server stopped.") ELSE stdout
  /\ UNCHANGED <<sockOpen, exitStatus, nextConn, backlog, handler, acceptOrder, closeOrder>>

\* The with statement's __exit__: server_close closes the listening socket.
WithExit ==
  /\ pc = "with_exit"
  /\ pc' = "return"
  /\ sockOpen' = FALSE
  /\ UNCHANGED <<caught, stdout, exitStatus, nextConn, backlog, handler, acceptOrder, closeOrder>>

\* main returns (status 0) or the uncaught exception ends the process.
ProcessExit ==
  /\ pc = "return"
  /\ pc' = "exited"
  /\ exitStatus' = IF caught THEN 0 ELSE 1
  /\ UNCHANGED <<caught, sockOpen, stdout, nextConn, backlog, handler, acceptOrder, closeOrder>>

Next ==
  \/ Connect
  \/ Accept
  \/ \E c \in 1..MaxConns : Handle(c)
  \/ \E c \in 1..MaxConns : HandlerError(c)
  \/ \E c \in 1..MaxConns : ShutdownRequest(c)
  \/ Interrupt
  \/ ExceptClause
  \/ WithExit
  \/ ProcessExit

Spec == Init /\ [][Next]_vars

\* After the interrupt main's remaining steps run one after the other.
FairSpec ==
  Spec /\ WF_vars(ExceptClause) /\ WF_vars(WithExit) /\ WF_vars(ProcessExit)

\* ------------------------------------------------------------ observations
\* The connections whose handler has answered and is not yet closed.
Answered == { c \in DOMAIN handler : handler[c].stage = "responded" }

Req(c) == handler[c].req
Fs(c) == handler[c].fs
Resp(c) == handler[c].h

\* A response was sent on connection c: send_response was called.
Sent(c) == Resp(c).code # 0

\* The header lines named k in the response head on the wire.
Occurrences(c, k) == { i \in 1..Len(Resp(c).wfile) : Resp(c).wfile[i].k = k }
Carries(c, line) == \E i \in 1..Len(Resp(c).wfile) : Resp(c).wfile[i] = line
CORSLines == <<AllowOrigin, AllowMethods, CacheControl>>
CarriesAll(c) == \A j \in 1..3 : Carries(c, CORSLines[j])

\* The request was parsed and dispatched as a GET, HEAD or OPTIONS request.
Parsed(c, commands) ==
  Req(c).raw = "line" /\ Resp(c).ok /\ Resp(c).command \in commands

\* What the request path names: its segments followed from the root
\* directory, ".." stepping up but never above the root.
Clean(path) == SelectSeq(path, LAMBDA w : w \notin {"", "."})
Target(path) == directory \o Canon(Clean(path), <<>>)
TargetNode(c) == Lookup(Fs(c), Target(Req(c).path))
\* Whether the segments, followed from the root without that clamp, leave it.
Escapes(path) == ~IsPrefix(directory, Canon(directory \o Clean(path), <<>>))
TrailingSlash(c) == Last(Req(c).path) = ""
ContentLength(c) ==
  { Resp(c).wfile[i].n : i \in Occurrences(c, "Content-Length") }
StatusOnWire(c) ==
  { Resp(c).wfile[i].n : i \in Occurrences(c, "STATUS") }

\* ------------------------------------------------------------------ claims

\* C1 (as stated): every response the server sends, whatever the method and
\* the status code, carries the three headers Access-Control-Allow-Origin: *,
\* Access-Control-Allow-Methods: GET, OPTIONS and Cache-Control: no-store,
\* no-cache, must-revalidate.
C1_EveryResponseCarriesHeaders ==
  \A c \in Answered : Sent(c) => CarriesAll(c)

\* C1 (amended): every response sent with a status line carries the three
\* headers with exactly these values; a response to a request handled as
\* HTTP/0.9 (no version word, or rejected before its version word is
\* accepted) is sent with no status line and no header at all.
C1_ResponsesWithHeadCarryHeaders ==
  \A c \in Answered :
    Sent(c) =>
      IF Resp(c).request_version = V09
      THEN Resp(c).wfile = <<>>
      ELSE /\ CarriesAll(c)
           /\ \A j \in 1..3 : \A i \in Occurrences(c, CORSLines[j].k) :
                Resp(c).wfile[i] = CORSLines[j]

C1_Witness ==
  \E c \in Answered :
    /\ Sent(c) /\ Resp(c).code = NOT_FOUND /\ CarriesAll(c)
    /\ Req(c).command = "GET"

\* C2: a request parsed as OPTIONS is answered 200 with an empty body,
\* whatever its path and whatever the filesystem holds there: the response is
\* the same fixed head and no file is opened.
C2_OptionsAlways200Empty ==
  \A c \in Answered :
    Parsed(c, {"OPTIONS"}) =>
      /\ Resp(c).code = OK
      /\ Resp(c).body = <<>>
      /\ Resp(c).opened = <<>>
      /\ Resp(c).request_version # V09 =>
           Resp(c).wfile = <<StatusLine(OK), Line("Server", "SimpleHTTP", 0, <<>>),
                             Line("Date", "now", 0, <<>>)>> \o CORSLines \o <<CRLF>>

C2_Witness ==
  \E c \in Answered :
    /\ Parsed(c, {"OPTIONS"}) /\ Resp(c).code = OK
    /\ TargetNode(c) = Absent
    /\ StatusOnWire(c) = {OK}

\* C3: in every response head the three CORS / cache headers are the last
\* three header lines, in the order of end_headers, after the status line and
\* every other header and right before the one blank line that ends the
\* head; the whole head has been written out.  This holds for success and
\* error responses alike.
C3_HeadersInjectedAtFinalization ==
  \A c \in Answered :
    LET w == Resp(c).wfile
        n == Len(w)
    IN w # <<>> =>
         /\ n >= 5
         /\ w[1].k = "STATUS"
         /\ w[n] = CRLF
         /\ SubSeq(w, n - 3, n - 1) = CORSLines
         /\ \A i \in 1..(n - 1) : w[i] # CRLF
         /\ \A i \in 2..n : w[i].k # "STATUS"
         /\ Resp(c).headers_buffer = <<>>

C3_Witness ==
  \E c \in Answered :
    /\ Resp(c).code = NOT_FOUND
    /\ Occurrences(c, "Content-Length") # {}
    /\ \A i \in Occurrences(c, "Content-Length") :
         \A j \in Occurrences(c, "Cache-Control") : i < j

\* C10 (as stated): in every response each of the three headers appears
\* exactly once.
C10_HeadersExactlyOnce ==
  \A c \in Answered :
    Sent(c) => \A j \in 1..3 : Cardinality(Occurrences(c, CORSLines[j].k)) = 1

\* C10 (amended): each of the three headers appears at most once in every
\* response, and exactly once in every response sent with a status line
\* (a response to a request handled as HTTP/0.9 has none of them).
C10_HeadersNeverDuplicated ==
  \A c \in Answered :
    Sent(c) =>
      \A j \in 1..3 :
        Cardinality(Occurrences(c, CORSLines[j].k)) =
          IF Resp(c).request_version = V09 THEN 0 ELSE 1

C10_Witness ==
  \E c \in Answered :
    /\ Resp(c).code = MOVED_PERMANENTLY
    /\ \A j \in 1..3 : Cardinality(Occurrences(c, CORSLines[j].k)) = 1

\* The index file send_head serves for the directory the request names:
\* index.html when it is a regular file, else index.htm when that is one.
IndexOf(c) ==
  LET ih == Append(Target(Req(c).path), "index.html")
      im == Append(Target(Req(c).path), "index.htm")
  IN IF Lookup(Fs(c), ih).kind = "file" THEN ih
     ELSE IF Lookup(Fs(c), im).kind = "file" THEN im
     ELSE <<>>
NotModifiedSince(c, node) ==
  Req(c).ims # NoIMS /\ ~Req(c).inm /\ node.mtime <= Req(c).ims
BodyFor(c, bytes) == IF Resp(c).command = "GET" THEN bytes ELSE <<>>

\* How send_head answers with the regular file at path p.
ServedAsFile(c, p) ==
  LET node == Lookup(Fs(c), p) IN
  IF ~node.readable THEN Resp(c).code = NOT_FOUND /\ Resp(c).opened = <<>>
  ELSE IF NotModifiedSince(c, node)
       THEN Resp(c).code = NOT_MODIFIED /\ Resp(c).body = <<>> /\ ContentLength(c) = {}
  ELSE /\ Resp(c).code = OK
       /\ Resp(c).opened = p
       /\ Resp(c).body = BodyFor(c, node.content)
       /\ ContentLength(c) =
            IF Resp(c).request_version = V09 THEN {} ELSE {Len(node.content)}

C5_UnreadableIs403 ==
  \A c \in Answered :
    (Parsed(c, {"GET", "HEAD"}) /\ ~TrailingSlash(c)
       /\ TargetNode(c).kind = "file" /\ ~TargetNode(c).readable)
      => Resp(c).code = 403

\* C5 (amended): a GET or HEAD request for a file that exists under the root
\* but cannot be read is answered 404 Not Found, the same status as for a
\* missing path; the server never answers 403.
C5_UnreadableIs404 ==
  \A c \in Answered :
    /\ (Parsed(c, {"GET", "HEAD"}) /\ ~TrailingSlash(c)
          /\ TargetNode(c).kind = "file" /\ ~TargetNode(c).readable)
         => (Resp(c).code = NOT_FOUND /\ Resp(c).body = BodyFor(c, ErrorBody(NOT_FOUND)))
    /\ Resp(c).code # 403

C5_Witness ==
  \E c \in Answered :
    /\ Parsed(c, {"GET"}) /\ ~TrailingSlash(c)
    /\ TargetNode(c).kind = "file" /\ ~TargetNode(c).readable
    /\ Resp(c).code = NOT_FOUND

\* C6 (as stated): a GET or HEAD request whose path resolves to a readable
\* regular file F is answered 200 with Content-Length equal to F's size and
\* a body identical to F's contents.
C6_FileServedWhole ==
  \A c \in Answered :
    (Parsed(c, {"GET", "HEAD"}) /\ ~TrailingSlash(c)
       /\ TargetNode(c).kind = "file" /\ TargetNode(c).readable)
      => /\ Resp(c).code = OK
         /\ ContentLength(c) = {Len(TargetNode(c).content)}
         /\ Resp(c).body = TargetNode(c).content

\* C6 (amended): a GET request whose path resolves to a readable regular
\* file F, and that is not a conditional request answered 304 (an
\* If-Modified-Since not older than F's modification time, without
\* If-None-Match), is answered 200 with a body identical to F's contents; a
\* HEAD request gets the same status and headers with an empty body; the
\* Content-Length header equals F's size whenever the response has headers
\* (it has none for an HTTP/0.9 request).
C6_FileServedByMethod ==
  \A c \in Answered :
    (Parsed(c, {"GET", "HEAD"}) /\ ~TrailingSlash(c)
       /\ TargetNode(c).kind = "file" /\ TargetNode(c).readable)
      => ServedAsFile(c, Target(Req(c).path))

C6_Witness ==
  \E c \in Answered :
    /\ Parsed(c, {"GET"}) /\ TargetNode(c).kind = "file"
    /\ Resp(c).code = OK
    /\ Resp(c).body = <<1, 2>>
    /\ ContentLength(c) = {2}

\* C7 (as stated): a GET or HEAD request whose path resolves to a directory
\* is answered 200, with the index file when the directory has one and with
\* a generated listing only when it has none.
C7_DirectoryIs200 ==
  \A c \in Answered :
    (Parsed(c, {"GET", "HEAD"}) /\ TargetNode(c).kind = "dir")
      => /\ Resp(c).code = OK
         /\ IndexOf(c) # <<>> => Resp(c).opened = IndexOf(c)
         /\ Resp(c).body = ListingBody => IndexOf(c) = <<>>

\* C7 (amended): a GET or HEAD request whose path ends in "/" and resolves
\* to a directory is answered with the directory's index file (index.html,
\* else index.htm) exactly as a request for that file would be, whenever one
\* exists, and never with a listing then; without an index file it is
\* answered 200 with a generated listing, or 404 when the directory cannot
\* be listed.  A directory path without the final "/" is answered 301 with
\* Location: the path plus "/".
C7_DirectoryIndexBeforeListing ==
  \A c \in Answered :
    (Parsed(c, {"GET", "HEAD"}) /\ TargetNode(c).kind = "dir")
      => IF ~TrailingSlash(c)
         THEN /\ Resp(c).code = MOVED_PERMANENTLY
              /\ Resp(c).body = <<>>
              /\ Resp(c).request_version # V09 =>
                   Carries(c, Line("Location", "", 0, Append(Resp(c).path, "")))
         ELSE IF IndexOf(c) # <<>>
         THEN ServedAsFile(c, IndexOf(c)) /\ Resp(c).body # ListingBody
         ELSE IF TargetNode(c).readable
         THEN Resp(c).code = OK /\ Resp(c).body = BodyFor(c, ListingBody)
         ELSE Resp(c).code = NOT_FOUND

C7_Witness ==
  \E c \in Answered :
    /\ Parsed(c, {"GET"}) /\ TargetNode(c).kind = "dir" /\ TrailingSlash(c)
    /\ IndexOf(c) = <<"srv", "d", "index.htm">>
    /\ Lookup(Fs(c), <<"srv", "d", "index.html">>).kind = "dir"
    /\ Resp(c).code = OK
    /\ Resp(c).body = <<4>>

\* C8: while no interrupt has arrived the server stays in serve_forever with
\* its listening socket open, ready to accept whenever a connection waits
\* and none is being handled; it leaves serve_forever only by the interrupt;
\* after the interrupt no connection is accepted, each remaining step of
\* main can be taken, and an exited process has printed "Server stopped.",
\* closed the listening socket and has exit status 0.
C8_ServesUntilInterrupted ==
  /\ [](pc = "serving" =>
          /\ sockOpen /\ exitStatus = -1
          /\ (backlog # <<>> /\ handler = <<>>) => ENABLED Accept)
  /\ [][pc = "serving" /\ pc' # "serving" => pc' = "KeyboardInterrupt" /\ handler' = <<>>]_vars
  /\ [][pc # "serving" => acceptOrder' = acceptOrder /\ handler' = <<>>]_vars
  /\ [](pc \in {"KeyboardInterrupt", "with_exit", "return"} =>
          ENABLED (ExceptClause \/ WithExit \/ ProcessExit))
  /\ [](pc = "exited" =>
          /\ Last(stdout) = "Server stopped."
          /\ ~sockOpen
          /\ exitStatus = 0)
  /\ (pc = "KeyboardInterrupt" ~> pc = "exited")

C8_Witness ==
  /\ pc = "exited" /\ exitStatus = 0
  /\ Len(acceptOrder) >= 1
  /\ backlog # <<>>

\* C9: at most one connection is being handled at any time; connections are
\* accepted in arrival order and each is closed before the next is accepted,
\* so they are served one after another in accept order.
C9_OneConnectionAtATime ==
  /\ Cardinality(DOMAIN handler) <= 1
  /\ acceptOrder = [i \in 1..Len(acceptOrder) |-> i]
  /\ IsPrefix(closeOrder, acceptOrder)
  /\ Len(acceptOrder) - Len(closeOrder) = Cardinality(DOMAIN handler)
  /\ \A c \in DOMAIN handler : c = Last(acceptOrder)

C9_Witness ==
  /\ closeOrder = <<1>>
  /\ DOMAIN handler = {2}
  /\ handler[2].stage = "responded"

====
